---- MODULE Spec2Model ----
(***************************************************************************)
(* State-machine model of the music helper worker (src/src/index.ts):      *)
(* pitch-class arithmetic, scale and triad derivation, the progression     *)
(* catalog, the melody generator with its random draws, the fretboard      *)
(* mapper and the fetch entry point.                                       *)
(*                                                                         *)
(* A JavaScript string is a sequence of one-character strings, so that     *)
(* trim, charAt, slice, replace and the template literals are computed     *)
(* character by character.  A JavaScript value that is not a string (an    *)
(* object or a function) is a one-element sequence holding its string      *)
(* conversion as a single token; no string equals such a value.            *)
(***************************************************************************)
EXTENDS Integers, Sequences, FiniteSets, TLC

VARIABLES
    pc,           \* position: "idle", "call", "bar", "beat", "done"
    fn,           \* the function or handler being run
    args,         \* its arguments
    ret,          \* its return value or the error it threw
    scale,        \* generateMelodyForProgression: const scale
    chord,        \* generateMelodyForProgression: const chord of the current bar
    barIdx,       \* index of the chordNames.forEach iteration (0-based)
    beatInBar,    \* loop variable of the inner for loop
    currentBeat,  \* generateMelodyForProgression: let currentBeat
    useChordTone, \* outcome of Math.random() < 0.7 for the last note
    notes,        \* the notes array: beat and duration of every pushed element
    pushed,       \* the element pushed last, in full (note, duration, beat, tab)
    request,      \* fetch: the request being served
    response      \* fetch: the Response returned

vars == <<pc, fn, args, ret, scale, chord, barIdx, beatInBar, currentBeat,
          useChordTone, notes, pushed, request, response>>

melodyVars == <<scale, chord, barIdx, beatInBar, currentBeat, useChordTone, notes, pushed>>

httpVars == <<request, response>>

----------------------------------------------------------------------------
(* Bounds of the model *)

\* longest key string generated over KeyChars
MaxKeyLen == 2

\* shiftNote is applied to every semitone count in -MaxShift..MaxShift
MaxShift == 25

\* longest chordNames array
MaxChords == 2

----------------------------------------------------------------------------
(* Strings *)

LowerCase == <<"a","b","c","d","e","f","g","h","i","j","k","l","m",
               "n","o","p","q","r","s","t","u","v","w","x","y","z">>

UpperCase == <<"A","B","C","D","E","F","G","H","I","J","K","L","M",
               "N","O","P","Q","R","S","T","U","V","W","X","Y","Z">>

Digits == <<"0","1","2","3","4","5","6","7","8","9">>

Range(s) == { s[i] : i \in DOMAIN s }

\* the characters a string of the model is made of
Chars == Range(LowerCase) \cup Range(UpperCase) \cup Range(Digits)
           \cup {"#", " ", "_", "°", "+", "-"}

IsString(v) == \A i \in DOMAIN v : v[i] \in Chars

WhiteSpace == {" "}

\* String.prototype.toUpperCase on one character
toUpperCase(c) ==
    IF \E i \in DOMAIN LowerCase : LowerCase[i] = c
    THEN UpperCase[CHOOSE i \in DOMAIN LowerCase : LowerCase[i] = c]
    ELSE c

\* String.prototype.toLowerCase
toLowerCase(s) ==
    [i \in DOMAIN s |->
        IF \E j \in DOMAIN UpperCase : UpperCase[j] = s[i]
        THEN LowerCase[CHOOSE j \in DOMAIN UpperCase : UpperCase[j] = s[i]]
        ELSE s[i]]

RECURSIVE trimStart(_)
trimStart(s) ==
    IF s # <<>> /\ Head(s) \in WhiteSpace THEN trimStart(Tail(s)) ELSE s

RECURSIVE trimEnd(_)
trimEnd(s) ==
    IF s # <<>> /\ s[Len(s)] \in WhiteSpace
    THEN trimEnd(SubSeq(s, 1, Len(s) - 1))
    ELSE s

\* String.prototype.trim
trim(s) == trimEnd(trimStart(s))

\* the leading decimal digits of a string
RECURSIVE digitsPrefix(_)
digitsPrefix(s) ==
    IF s # <<>> /\ Head(s) \in Range(Digits)
    THEN <<Head(s)>> \o digitsPrefix(Tail(s))
    ELSE <<>>

\* the number a sequence of decimal digits writes
RECURSIVE decimalValue(_)
decimalValue(d) ==
    IF d = <<>> THEN 0
    ELSE 10 * decimalValue(SubSeq(d, 1, Len(d) - 1))
           + (CHOOSE i \in DOMAIN Digits : Digits[i] = d[Len(d)]) - 1

\* parseInt(s, 10): leading white space, a sign, the leading digits; NaN when
\* there is no digit
parseInt(s) ==
    LET t == trimStart(s)
        signed == t # <<>> /\ Head(t) \in {"+", "-"}
        d == digitsPrefix(IF signed THEN Tail(t) ELSE t)
    IN IF d = <<>> THEN [isNaN |-> TRUE, value |-> 0]
       ELSE [isNaN |-> FALSE,
             value |-> IF signed /\ Head(t) = "-" THEN -decimalValue(d) ELSE decimalValue(d)]

\* Array.prototype.indexOf / findIndex by ===: 0-based, -1 when absent
indexOf(arr, x) ==
    IF \E i \in DOMAIN arr : arr[i] = x
    THEN (CHOOSE i \in DOMAIN arr : arr[i] = x /\ \A j \in 1..(i - 1) : arr[j] # x) - 1
    ELSE -1

\* the JavaScript remainder a % b for b > 0: the sign follows the dividend
JsRem(a, b) == IF a >= 0 THEN a % b ELSE -((-a) % b)

\* a thrown error, and a normal return
Throw(msg, v) == [ok |-> FALSE, error |-> msg, value |-> v]

Ok(v) == [ok |-> TRUE, error |-> "", value |-> v]

----------------------------------------------------------------------------
(* Pitch model *)

CHROMATIC == << <<"C">>, <<"C","#">>, <<"D">>, <<"D","#">>, <<"E">>, <<"F">>,
                <<"F","#">>, <<"G">>, <<"G","#">>, <<"A">>, <<"A","#">>, <<"B">> >>

\* the own properties of ENHARMONIC_MAP, as <<flat, sharp>> pairs
ENHARMONIC_MAP ==
    { << <<"D","b">>, <<"C","#">> >>,
      << <<"E","b">>, <<"D","#">> >>,
      << <<"G","b">>, <<"F","#">> >>,
      << <<"A","b">>, <<"G","#">> >>,
      << <<"B","b">>, <<"A","#">> >> }

\* ENHARMONIC_MAP is an object literal: a lookup by a name it does not own
\* goes on to Object.prototype, whose properties are all truthy.  These are
\* the inherited names, each with the value found (an object or a function,
\* written as its string conversion).
OBJECT_PROTOTYPE ==
    { << <<"_","_","p","r","o","t","o","_","_">>, <<"[object Object]">> >>,
      << <<"c","o","n","s","t","r","u","c","t","o","r">>,
         <<"function Object() { [native code] }">> >>,
      << <<"t","o","S","t","r","i","n","g">>,
         <<"function toString() { [native code] }">> >>,
      << <<"v","a","l","u","e","O","f">>,
         <<"function valueOf() { [native code] }">> >> }

\* ENHARMONIC_MAP[k]: the own property, else the inherited one, else undefined
\* (written <<>>, falsy like undefined)
EnharmonicLookup(k) ==
    IF \E p \in ENHARMONIC_MAP : p[1] = k
    THEN (CHOOSE p \in ENHARMONIC_MAP : p[1] = k)[2]
    ELSE IF \E p \in OBJECT_PROTOTYPE : p[1] = k
         THEN (CHOOSE p \in OBJECT_PROTOTYPE : p[1] = k)[2]
         ELSE <<>>

normalizeKey(key) ==
    LET t == trim(key)
        k == IF t = <<>> THEN <<>> ELSE <<toUpperCase(Head(t))>> \o Tail(t)
    IN IF EnharmonicLookup(k) # <<>> THEN EnharmonicLookup(k) ELSE k

\* getNoteIndex without its check: a name not found counts as index 0
getNoteIndex_NoThrow(note) ==
    LET idx == indexOf(CHROMATIC, note)
    IN IF idx = -1 THEN Ok(0) ELSE Ok(idx)

getNoteIndex(note) ==
    LET idx == indexOf(CHROMATIC, note)
    IN IF idx = -1 THEN Throw("Unsupported note", note) ELSE Ok(idx)

MAJOR_SCALE_STEPS == <<0, 2, 4, 5, 7, 9, 11>>

NAT_MINOR_SCALE_STEPS == <<0, 2, 3, 5, 7, 8, 10>>

ScaleType == {"major", "minor"}

\* buildScale with the two step tables taken for each other
buildScale_SwappedSteps(root, scaleType) ==
    LET steps == IF scaleType = "major" THEN NAT_MINOR_SCALE_STEPS ELSE MAJOR_SCALE_STEPS
        rootIndex == getNoteIndex(root)
    IN IF ~rootIndex.ok THEN rootIndex
       ELSE Ok([i \in DOMAIN steps |-> CHROMATIC[((rootIndex.value + steps[i]) % 12) + 1]])

buildScale(root, scaleType) ==
    LET steps == IF scaleType = "major" THEN MAJOR_SCALE_STEPS ELSE NAT_MINOR_SCALE_STEPS
        rootIndex == getNoteIndex(root)
    IN IF ~rootIndex.ok THEN rootIndex
       ELSE Ok([i \in DOMAIN steps |-> CHROMATIC[((rootIndex.value + steps[i]) % 12) + 1]])

\* shiftNote that takes the size of the count and drops its sign
shiftNote_AbsOffset(root, semitones) ==
    LET idx == getNoteIndex(root)
        offset == (IF semitones >= 0 THEN semitones ELSE -semitones) % 12
    IN IF ~idx.ok THEN idx ELSE Ok(CHROMATIC[((idx.value + offset) % 12) + 1])

\* shiftNote that moves down where it should move up
shiftNote_Down(root, semitones) ==
    LET idx == getNoteIndex(root)
        offset == (JsRem(semitones, 12) + 12) % 12
    IN IF ~idx.ok THEN idx ELSE Ok(CHROMATIC[((idx.value + 12 - offset) % 12) + 1])

shiftNote(root, semitones) ==
    LET idx == getNoteIndex(root)
        offset == (JsRem(semitones, 12) + 12) % 12
    IN IF ~idx.ok THEN idx ELSE Ok(CHROMATIC[((idx.value + offset) % 12) + 1])

----------------------------------------------------------------------------
(* Chord deriver *)

qualityMapMajor == <<"", "m", "m", "", "", "m", "dim">>

\* the minor-key table with degree 5 taken as a major chord
qualityMapMinor_MajorFive == <<"m", "dim", "", "m", "", "", "">>

qualityMapMinor == <<"m", "dim", "", "m", "m", "", "">>

\* the scale-level test looking for a minor third in place of the major one
isMajorScale_MinorThird(sc) ==
    LET rootIdx == getNoteIndex(sc[1]).value
        thirdIdx == getNoteIndex(sc[3]).value
    IN JsRem(thirdIdx - rootIdx + 12, 12) = 3

\* the scale-level test of buildChordTriad; the scale holds names of CHROMATIC
\* only, so neither getNoteIndex throws
isMajorScale(sc) ==
    LET rootIdx == getNoteIndex(sc[1]).value
        thirdIdx == getNoteIndex(sc[3]).value
    IN JsRem(thirdIdx - rootIdx + 12, 12) = 4

\* buildChordTriad without the wrap past the seventh entry: a third or a
\* fifth beyond it stays on the seventh
buildChordTriad_NoWrap(sc, degree, octave) ==
    LET i == degree - 1
        root == sc[i + 1]
        third == sc[(IF i + 2 > 6 THEN 6 ELSE i + 2) + 1]
        fifth == sc[(IF i + 4 > 6 THEN 6 ELSE i + 4) + 1]
        quality == IF isMajorScale(sc) THEN qualityMapMajor[i + 1] ELSE qualityMapMinor[i + 1]
        name == IF quality = "m" THEN root \o <<"m">>
                ELSE IF quality = "dim" THEN root \o <<"°">>
                ELSE root
    IN [degree |-> degree,
        name |-> name,
        notes |-> [k \in 1..3 |-> <<root, third, fifth>>[k] \o <<Digits[octave + 1]>>]]

buildChordTriad(sc, degree, octave) ==
    LET i == degree - 1
        root == sc[i + 1]
        third == sc[((i + 2) % 7) + 1]
        fifth == sc[((i + 4) % 7) + 1]
        quality == IF isMajorScale(sc) THEN qualityMapMajor[i + 1] ELSE qualityMapMinor[i + 1]
        name == IF quality = "m" THEN root \o <<"m">>
                ELSE IF quality = "dim" THEN root \o <<"°">>
                ELSE root
    IN [degree |-> degree,
        name |-> name,
        notes |-> [k \in 1..3 |-> <<root, third, fifth>>[k] \o <<Digits[octave + 1]>>]]

\* the default value of buildChordTriad's octave parameter
DefaultOctave == 4

----------------------------------------------------------------------------
(* Progression generator *)

\* the catalog; the en dashes of the names are written as hyphens
COMMON_PROGRESSIONS ==
    << [name |-> "Pop I-V-vi-IV", degrees |-> <<1, 5, 6, 4>>],
       [name |-> "Pop vi-IV-I-V", degrees |-> <<6, 4, 1, 5>>],
       [name |-> "Classic I-vi-IV-V", degrees |-> <<1, 6, 4, 5>>],
       [name |-> "ii-V-I (Jazz-ish cadence)", degrees |-> <<2, 5, 1>>],
       [name |-> "I-IV-V-IV (Rock)", degrees |-> <<1, 4, 5, 4>>] >>

generateChordProgressions(key, scaleType, capo) ==
    LET normalizedKey == normalizeKey(key)
        capoKey == shiftNote(normalizedKey, capo)
        sc == buildScale(capoKey.value, scaleType)
    IN IF ~capoKey.ok THEN capoKey
       ELSE IF ~sc.ok THEN sc
       ELSE Ok([key |-> normalizedKey,
                capo |-> capo,
                capoKey |-> capoKey.value,
                scaleType |-> scaleType,
                scale |-> sc.value,
                progressions |->
                    [p \in DOMAIN COMMON_PROGRESSIONS |->
                        LET pattern == COMMON_PROGRESSIONS[p]
                        IN [label |-> pattern.name,
                            degrees |-> pattern.degrees,
                            chords |-> [d \in DOMAIN pattern.degrees |->
                                buildChordTriad(sc.value, pattern.degrees[d], DefaultOctave)]]]])

----------------------------------------------------------------------------
(* Fretboard mapper *)

\* note.match(/^([A-G]#?)(\d)$/)
matchNote(note) ==
    /\ Len(note) \in {2, 3}
    /\ note[1] \in {"A", "B", "C", "D", "E", "F", "G"}
    /\ Len(note) = 3 => note[2] = "#"
    /\ note[Len(note)] \in Range(Digits)

noteNameToSemitone(note) ==
    IF ~matchNote(note) THEN Throw("Invalid note format", note)
    ELSE LET pitch == SubSeq(note, 1, Len(note) - 1)
             octave == parseInt(<<note[Len(note)]>>).value
             idx == getNoteIndex(pitch)
         IN IF ~idx.ok THEN idx ELSE Ok(octave * 12 + idx.value)

STANDARD_TUNING == << <<"E","2">>, <<"A","2">>, <<"D","3">>, <<"G","3">>, <<"B","3">>, <<"E","4">> >>

\* the reduce with its fret comparison turned round: the largest fret wins
RECURSIVE reduceBest_LargestFret(_, _, _)
reduceBest_LargestFret(positions, acc, i) ==
    IF i > Len(positions) THEN acc
    ELSE LET cur == positions[i]
         IN reduceBest_LargestFret(positions,
                       IF acc = 0 THEN i
                       ELSE IF cur.fret > positions[acc].fret THEN i
                       ELSE IF cur.fret = positions[acc].fret
                               /\ cur.stringNumber < positions[acc].stringNumber THEN i
                       ELSE acc,
                       i + 1)

\* the reduce of convertNoteToTab: acc is the index of the accumulated
\* element of positions, 0 for null
RECURSIVE reduceBest(_, _, _)
reduceBest(positions, acc, i) ==
    IF i > Len(positions) THEN acc
    ELSE LET cur == positions[i]
         IN reduceBest(positions,
                       IF acc = 0 THEN i
                       ELSE IF cur.fret < positions[acc].fret THEN i
                       ELSE IF cur.fret = positions[acc].fret
                               /\ cur.stringNumber < positions[acc].stringNumber THEN i
                       ELSE acc,
                       i + 1)

\* noteNameToSemitone(open) of each open string of STANDARD_TUNING
openSemitones ==
    [idx \in DOMAIN STANDARD_TUNING |-> noteNameToSemitone(STANDARD_TUNING[idx]).value]

\* the map and the filter of convertNoteToTab: the strings at or below the target
tabPositions(targetSemitone) ==
    SelectSeq([idx \in DOMAIN STANDARD_TUNING |->
                  [stringNumber |-> 6 - (idx - 1),
                   fret |-> targetSemitone - openSemitones[idx]]],
              LAMBDA pos : pos.fret >= 0)

\* what convertNoteToTab returns for the element the reduce left (0: none)
tabOfBest(positions, best) ==
    IF best = 0
    THEN [stringNumber |-> 0, fret |-> -1, label |-> <<"(out of range)">>]
    ELSE [stringNumber |-> positions[best].stringNumber,
          fret |-> positions[best].fret,
          label |-> <<"String ", positions[best].stringNumber,
                      ", fret ", positions[best].fret>>]

convertNoteToTab(note) ==
    LET targetSemitone == noteNameToSemitone(note)
    IN IF ~targetSemitone.ok THEN targetSemitone
       ELSE Ok(tabOfBest(tabPositions(targetSemitone.value),
                         reduceBest(tabPositions(targetSemitone.value), 0, 1)))

----------------------------------------------------------------------------
(* Melody generator: the pure parts *)

\* the replace taking out the m only
stripQuality_KeepDim(name) == SelectSeq(name, LAMBDA c : c \notin {"m"})

\* name.replace(/[m°]/g, "")
stripQuality(name) == SelectSeq(name, LAMBDA c : c \notin {"m", "°"})

\* getChordForName without the test for -1: a root not found wraps round to
\* the last degree
getChordForName_FallbackLast(sc, name) ==
    LET rootRaw == stripQuality(name)
        deg == indexOf(sc, rootRaw)
    IN IF deg = -1 THEN buildChordTriad(sc, 7, DefaultOctave)
       ELSE buildChordTriad(sc, deg + 1, DefaultOctave)

getChordForName(sc, name) ==
    LET rootRaw == stripQuality(name)
        deg == indexOf(sc, rootRaw)
    IN IF deg = -1 THEN buildChordTriad(sc, 1, DefaultOctave)
       ELSE buildChordTriad(sc, deg + 1, DefaultOctave)

\* the octaves of the melody taken one lower
melodyOctaves_Low == <<3, 4>>

melodyOctaves == <<4, 5>>

\* pickRandom(arr) = arr[Math.floor(Math.random() * arr.length)]: Math.random()
\* lies in [0, 1), so the index takes every value of 0..arr.length-1
pickRandom(arr) == { arr[i] : i \in DOMAIN arr }

\* String.prototype.slice(0, -1)
sliceLast(s) == SubSeq(s, 1, Len(s) - 1)

\* melodyBases drawing its non-chord tones from all 12 pitch classes
melodyBases_Chromatic(u, ch, sc) ==
    IF u THEN { sliceLast(n) : n \in pickRandom(ch.notes) } ELSE pickRandom(CHROMATIC)

\* the values base can take: a chord note without its octave when
\* useChordTone, else a scale tone
melodyBases(u, ch, sc) ==
    IF u THEN { sliceLast(n) : n \in pickRandom(ch.notes) } ELSE pickRandom(sc)

\* melodyNote with the beat counted within the bar
melodyNote_BeatInBar(pitch, beat, tab) ==
    [note |-> pitch, duration |-> 1, beat |-> beat % 4, tab |-> tab]

\* the element pushed for a pitch at the current beat; tab is the value
\* convertNoteToTab returned
melodyNote(pitch, beat, tab) ==
    [note |-> pitch, duration |-> 1, beat |-> beat, tab |-> tab]

----------------------------------------------------------------------------
(* Inputs *)

\* every sequence over S of length 0..n
StringsUpTo(S, n) == UNION { [1..k -> S] : k \in 0..n }

KeyChars == {"A", "B", "C", "D", "E", "F", "G", "H",
             "a", "b", "c", "d", "e", "f", "g", "#", " "}

\* longer keys: padded, misspelt, and names Object.prototype holds
KeyExtras ==
    { <<" ", "b", "b", " ">>, <<" ", "c", "#", " ">>, <<"C", " ", "#">>,
      <<"B", "b", "m">>, <<"C", "#", "#">>,
      <<"_","_","p","r","o","t","o","_","_">>,
      <<"c","o","n","s","t","r","u","c","t","o","r">>,
      <<"t","o","S","t","r","i","n","g">> }

KeyInputs == StringsUpTo(KeyChars, MaxKeyLen) \cup KeyExtras

\* what a variable holds while the code that sets it has not run
Pending == [ok |-> FALSE, error |-> "pending", value |-> <<>>]

NoChord == [degree |-> 0, name |-> <<>>, notes |-> <<>>]

NoNote == [note |-> <<>>, duration |-> 0, beat |-> -1,
           tab |-> [stringNumber |-> 0, fret |-> 0, label |-> <<>>]]

NoRequest == [route |-> "none"]

NoResponse == [status |-> 0, body |-> <<>>]

MelodyIdle ==
    /\ scale = <<>>
    /\ chord = NoChord
    /\ barIdx = 0
    /\ beatInBar = 0
    /\ currentBeat = 0
    /\ useChordTone = FALSE
    /\ notes = <<>>
    /\ pushed = NoNote

HttpIdle ==
    /\ request = NoRequest
    /\ response = NoResponse

----------------------------------------------------------------------------
(* normalizeKey applied to an input key *)

InitKey ==
    /\ pc = "call"
    /\ fn = "normalizeKey"
    /\ args \in { [key |-> k] : k \in KeyInputs }
    /\ ret = Pending
    /\ MelodyIdle
    /\ HttpIdle

CallNormalizeKey ==
    /\ pc = "call"
    /\ fn = "normalizeKey"
    /\ ret' = Ok(normalizeKey(args.key))
    /\ pc' = "done"
    /\ UNCHANGED <<fn, args, melodyVars, httpVars>>

SpecKey == InitKey /\ [][CallNormalizeKey]_vars

----------------------------------------------------------------------------
(* shiftNote applied to a root and a semitone count, then back *)

ShiftRoots == Range(CHROMATIC) \cup { <<"D","b">>, <<"H">> }

InitShift ==
    /\ pc = "call"
    /\ fn = "shiftNote"
    /\ args \in { [root |-> r, semitones |-> n] :
                    r \in ShiftRoots, n \in (-MaxShift)..MaxShift }
    /\ ret = Pending
    /\ MelodyIdle
    /\ HttpIdle

CallShiftNote ==
    /\ pc = "call"
    /\ fn = "shiftNote"
    /\ ret' = shiftNote(args.root, args.semitones)
    /\ pc' = "done"
    /\ UNCHANGED <<fn, args, melodyVars, httpVars>>

\* the result shifted by the opposite count
CallShiftBack ==
    /\ pc = "done"
    /\ fn = "shiftNote"
    /\ ret.ok
    /\ ret' = shiftNote(ret.value, -args.semitones)
    /\ pc' = "back"
    /\ UNCHANGED <<fn, args, melodyVars, httpVars>>

NextShift == CallShiftNote \/ CallShiftBack

SpecShift == InitShift /\ [][NextShift]_vars

----------------------------------------------------------------------------
(* buildScale applied to a root as given, and to the normalized key as
   generateMelodyForProgression applies it *)

InitScale ==
    /\ pc = "call"
    /\ fn \in {"buildScale", "scaleOfKey"}
    /\ args \in { [root |-> r, scaleType |-> t] : r \in KeyInputs, t \in ScaleType }
    /\ ret = Pending
    /\ MelodyIdle
    /\ HttpIdle

CallBuildScale ==
    /\ pc = "call"
    /\ fn = "buildScale"
    /\ ret' = buildScale(args.root, args.scaleType)
    /\ pc' = "done"
    /\ UNCHANGED <<fn, args, melodyVars, httpVars>>

CallScaleOfKey ==
    /\ pc = "call"
    /\ fn = "scaleOfKey"
    /\ ret' = buildScale(normalizeKey(args.root), args.scaleType)
    /\ pc' = "done"
    /\ UNCHANGED <<fn, args, melodyVars, httpVars>>

NextScale == CallBuildScale \/ CallScaleOfKey

SpecScale == InitScale /\ [][NextScale]_vars

----------------------------------------------------------------------------
(* convertNoteToTab applied to a note name *)

\* every name the pattern of noteNameToSemitone matches, and some it does not
NoteInputs ==
    { <<l, d>> : l \in {"A", "B", "C", "D", "E", "F", "G"}, d \in Range(Digits) }
    \cup { <<l, "#", d>> : l \in {"A", "B", "C", "D", "E", "F", "G"}, d \in Range(Digits) }
    \cup { <<>>, <<"C">>, <<"C", "#">>, <<"c", "4">>, <<"H", "2">>, <<"D", "b", "4">>,
           <<"C", "1", "0">>, <<"4", "C">>, <<"C", " ", "4">> }

InitTab ==
    /\ pc = "call"
    /\ fn = "convertNoteToTab"
    /\ args \in { [note |-> n] : n \in NoteInputs }
    /\ ret = Pending
    /\ MelodyIdle
    /\ HttpIdle

CallConvertNoteToTab ==
    /\ pc = "call"
    /\ fn = "convertNoteToTab"
    /\ ret' = convertNoteToTab(args.note)
    /\ pc' = "done"
    /\ UNCHANGED <<fn, args, melodyVars, httpVars>>

SpecTab == InitTab /\ [][CallConvertNoteToTab]_vars

----------------------------------------------------------------------------
(* generateChordProgressions applied to a key, a scale type and a capo *)

\* the capo values the caller lets through
CapoInputs == 0..11

InitProg ==
    /\ pc = "call"
    /\ fn = "generateChordProgressions"
    /\ args \in { [key |-> k, scaleType |-> t, capo |-> c] :
                    k \in KeyInputs, t \in ScaleType, c \in CapoInputs }
    /\ ret = Pending
    /\ MelodyIdle
    /\ HttpIdle

CallGenerateChordProgressions ==
    /\ pc = "call"
    /\ fn = "generateChordProgressions"
    /\ ret' = generateChordProgressions(args.key, args.scaleType, args.capo)
    /\ pc' = "done"
    /\ UNCHANGED <<fn, args, melodyVars, httpVars>>

SpecProg == InitProg /\ [][CallGenerateChordProgressions]_vars

----------------------------------------------------------------------------
(* Properties of the pitch model *)

Canonical == Range(CHROMATIC)

FlatSpellings == { <<"D","b">>, <<"E","b">>, <<"G","b">>, <<"A","b">>, <<"B","b">> }

\* the sharp spelling of each of the five flats
SharpOf(f) ==
    CASE f = <<"D","b">> -> <<"C","#">>
      [] f = <<"E","b">> -> <<"D","#">>
      [] f = <<"G","b">> -> <<"F","#">>
      [] f = <<"A","b">> -> <<"G","#">>
      [] f = <<"B","b">> -> <<"A","#">>

\* the input trimmed, its first character in upper case
Capitalized(key) ==
    LET t == trim(key)
    IN IF t = <<>> THEN t ELSE <<toUpperCase(t[1])>> \o SubSeq(t, 2, Len(t))

NormalizedAsClaimed(key) ==
    IF Capitalized(key) \in FlatSpellings THEN SharpOf(Capitalized(key)) ELSE Capitalized(key)

\* C8: normalizeKey trims, puts the first character in upper case, maps
\* exactly the five flat spellings to their sharps and returns every other
\* capitalized input unchanged ('bb' gives 'A#', 'f#' gives 'F#', 'Fb' and
\* 'H' pass through), and applying it to its own result changes nothing.
C8_NormalizeKey ==
    (pc = "done" /\ fn = "normalizeKey") =>
        /\ ret.value = NormalizedAsClaimed(args.key)
        /\ IsString(ret.value)
        /\ normalizeKey(ret.value) = ret.value
        /\ args.key = <<"b","b">> => ret.value = <<"A","#">>
        /\ args.key = <<"f","#">> => ret.value = <<"F","#">>
        /\ args.key = <<"F","b">> => ret.value = <<"F","b">>
        /\ args.key = <<"H">> => ret.value = <<"H">>

\* the names Object.prototype holds
InheritedNames == { p[1] : p \in OBJECT_PROTOTYPE }

\* C8 holds of every key whose capitalized form is no inherited name
C8_ExceptInheritedNames ==
    (pc = "done" /\ fn = "normalizeKey" /\ Capitalized(args.key) \notin InheritedNames) =>
        /\ ret.value = NormalizedAsClaimed(args.key)
        /\ IsString(ret.value)
        /\ normalizeKey(ret.value) = ret.value

\* the failing case of C8: the key __proto__ comes back as Object.prototype
C8_ProtoReached ==
    /\ pc = "done"
    /\ fn = "normalizeKey"
    /\ args.key = <<"_","_","p","r","o","t","o","_","_">>
    /\ ret.value = <<"[object Object]">>

\* C10: for a canonical root r and any integer n, shiftNote(r, n) is the
\* pitch class at index (index(r) + n) mod 12 taken in 0..11; so a shift by
\* 0 or 12 gives r, a shift by n + 12 gives what a shift by n gives, and a
\* shift by n followed by one by -n gives r.
C10_ShiftIsAdditionMod12 ==
    (fn = "shiftNote" /\ pc \in {"done", "back"} /\ args.root \in Canonical) =>
        LET i == indexOf(CHROMATIC, args.root)
            n == args.semitones
        IN /\ pc = "done" =>
                /\ ret = Ok(CHROMATIC[((i + n) % 12) + 1])
                /\ n \in {0, 12} => ret.value = args.root
                /\ shiftNote(args.root, n + 12) = ret
           /\ pc = "back" => ret = Ok(args.root)

C10_Witness ==
    /\ fn = "shiftNote"
    /\ pc = "back"
    /\ args.root = <<"C">>
    /\ args.semitones = -13
    /\ ret = Ok(<<"C">>)

----------------------------------------------------------------------------
(* Properties of the scale builder *)

\* the roots the claim takes as accepted keys
AcceptedRoots == Canonical \cup FlatSpellings

\* semitones from pitch class a up to pitch class b
Interval(a, b) == (indexOf(CHROMATIC, b) - indexOf(CHROMATIC, a)) % 12

OffsetsAsClaimed(t) ==
    IF t = "major" THEN <<0, 2, 4, 5, 7, 9, 11>> ELSE <<0, 2, 3, 5, 7, 8, 10>>

\* r is a scale of 7 distinct pitch classes on root with the offsets of t
IsScaleOf(r, root, t) ==
    /\ r.ok
    /\ Len(r.value) = 7
    /\ \A i \in 1..7 : r.value[i] \in Canonical
    /\ \A i, j \in 1..7 : i # j => r.value[i] # r.value[j]
    /\ r.value[1] = root
    /\ \A i \in 1..7 : Interval(root, r.value[i]) = OffsetsAsClaimed(t)[i]

\* C4 as stated: for every accepted root spelling r (canonical or flat) and
\* scale type t, buildScale(r, t) is 7 distinct pitch classes, the first
\* normalizeKey(r), the i-th offset_t[i] semitones above the root.
C4_BuildScaleOfAnyAcceptedRoot ==
    (pc = "done" /\ fn = "buildScale" /\ args.root \in AcceptedRoots) =>
        IsScaleOf(ret, normalizeKey(args.root), args.scaleType)

\* C4 as amended: the same of buildScale(normalizeKey(r), t), and of
\* buildScale(r, t) for a canonical r; buildScale(r, t) of a flat spelling r
\* throws Unsupported note.
C4_BuildScaleOfNormalizedRoot ==
    /\ (pc = "done" /\ fn = "scaleOfKey" /\ args.root \in AcceptedRoots) =>
           IsScaleOf(ret, normalizeKey(args.root), args.scaleType)
    /\ (pc = "done" /\ fn = "buildScale" /\ args.root \in Canonical) =>
           IsScaleOf(ret, args.root, args.scaleType)
    /\ (pc = "done" /\ fn = "buildScale" /\ args.root \in FlatSpellings) =>
           ret = Throw("Unsupported note", args.root)

C4_Witness ==
    /\ pc = "done"
    /\ fn = "scaleOfKey"
    /\ args = [root |-> <<"B","b">>, scaleType |-> "minor"]
    /\ ret.ok
    /\ ret.value = << <<"A","#">>, <<"C">>, <<"C","#">>, <<"D","#">>,
                      <<"F">>, <<"F","#">>, <<"G","#">> >>

----------------------------------------------------------------------------
(* Properties of the fretboard mapper *)

\* a pitch letter A-G, an optional sharp, one octave digit
WellFormedNote(n) ==
    \/ /\ Len(n) = 2
       /\ n[1] \in {"A", "B", "C", "D", "E", "F", "G"}
       /\ n[2] \in Range(Digits)
    \/ /\ Len(n) = 3
       /\ n[1] \in {"A", "B", "C", "D", "E", "F", "G"}
       /\ n[2] = "#"
       /\ n[3] \in Range(Digits)

PitchOf(n) == SubSeq(n, 1, Len(n) - 1)

\* octave * 12 + pitch-class index
AbsoluteSemitone(n) ==
    ((CHOOSE d \in 0..9 : Digits[d + 1] = n[Len(n)]) * 12) + indexOf(CHROMATIC, PitchOf(n))

\* the open pitch of strings 1..6: E4, B3, G3, D3, A2, E2
OpenSemitone == <<52, 47, 43, 38, 33, 28>>

\* tab is the smallest-fret candidate for semitone t, ties to the smallest
\* string number, and the sentinel exactly when t is below E2
IsBestPosition(tab, t) ==
    LET cands == { st \in 1..6 : t - OpenSemitone[st] >= 0 }
    IN /\ (tab.stringNumber = 0 /\ tab.fret = -1) <=> t < OpenSemitone[6]
       /\ t < OpenSemitone[6] => cands = {}
       /\ t >= OpenSemitone[6] =>
            /\ tab.stringNumber \in cands
            /\ tab.fret = t - OpenSemitone[tab.stringNumber]
            /\ \A st \in cands :
                 \/ tab.fret < t - OpenSemitone[st]
                 \/ tab.fret = t - OpenSemitone[st] /\ tab.stringNumber <= st

TabExamples ==
    /\ args.note = <<"E","2">> => ret.value.stringNumber = 6 /\ ret.value.fret = 0
    /\ args.note = <<"E","4">> => ret.value.stringNumber = 1 /\ ret.value.fret = 0
    /\ args.note = <<"D","2">> => ret.value.stringNumber = 0 /\ ret.value.fret = -1

\* C3 as stated: for every well-formed note (letter A-G, optional sharp,
\* octave digit) convertNoteToTab returns the smallest-fret candidate over
\* the six strings, ties to the smallest string number, and the sentinel
\* exactly when the note lies below E2.
C3_TabOfAnyWellFormedNote ==
    (pc = "done" /\ fn = "convertNoteToTab" /\ WellFormedNote(args.note)) =>
        /\ ret.ok
        /\ IsBestPosition(ret.value, AbsoluteSemitone(args.note))
        /\ TabExamples

\* C3 as amended: the same for every well-formed note whose pitch class is
\* one of the 12 canonical names; for the well-formed names E# and B# in any
\* octave convertNoteToTab throws Unsupported note.
C3_TabOfCanonicalNote ==
    (pc = "done" /\ fn = "convertNoteToTab" /\ WellFormedNote(args.note)) =>
        IF PitchOf(args.note) \in Canonical
        THEN /\ ret.ok
             /\ IsBestPosition(ret.value, AbsoluteSemitone(args.note))
             /\ TabExamples
        ELSE /\ PitchOf(args.note) \in { <<"E","#">>, <<"B","#">> }
             /\ ret = Throw("Unsupported note", PitchOf(args.note))

C3_Witness ==
    /\ pc = "done"
    /\ fn = "convertNoteToTab"
    /\ args.note = <<"C","#","4">>
    /\ ret.ok
    /\ ret.value.stringNumber = 2
    /\ ret.value.fret = 2

----------------------------------------------------------------------------
(* Properties of the progression generator *)

\* C1: for a key whose normalized form is canonical, any scale type and a
\* capo in 0..11, generateChordProgressions returns key = normalizeKey(key),
\* the capo, capoKey = the pitch class capo semitones above the key, scale =
\* buildScale(capoKey, scaleType) and the 5 catalog patterns in order, each
\* with its label, its degrees and chords[i] = buildChordTriad(scale,
\* degrees[i]); (C, major, 0) starts with C, G, Am, F and (C, major, 2) has
\* capoKey D and scale D, E, F#, G, A, B, C#.
C1_ProgressionsResult ==
    (pc = "done" /\ fn = "generateChordProgressions"
        /\ normalizeKey(args.key) \in Canonical /\ args.capo \in 0..11) =>
        LET k == normalizeKey(args.key)
            v == ret.value
        IN /\ ret.ok
           /\ v.key = k
           /\ v.capo = args.capo
           /\ v.capoKey \in Canonical
           /\ Interval(k, v.capoKey) = args.capo
           /\ v.scaleType = args.scaleType
           /\ IsScaleOf(Ok(v.scale), v.capoKey, args.scaleType)
           /\ v.scale = buildScale(v.capoKey, args.scaleType).value
           /\ Len(v.progressions) = 5
           /\ [p \in 1..5 |-> v.progressions[p].label] =
                 <<"Pop I-V-vi-IV", "Pop vi-IV-I-V", "Classic I-vi-IV-V",
                   "ii-V-I (Jazz-ish cadence)", "I-IV-V-IV (Rock)">>
           /\ [p \in 1..5 |-> v.progressions[p].degrees] =
                 << <<1, 5, 6, 4>>, <<6, 4, 1, 5>>, <<1, 6, 4, 5>>, <<2, 5, 1>>, <<1, 4, 5, 4>> >>
           /\ \A p \in 1..5 :
                /\ Len(v.progressions[p].chords) = Len(v.progressions[p].degrees)
                /\ \A i \in DOMAIN v.progressions[p].degrees :
                     v.progressions[p].chords[i] =
                        buildChordTriad(v.scale, v.progressions[p].degrees[i], 4)
           /\ (args.key = <<"C">> /\ args.scaleType = "major" /\ args.capo = 0) =>
                [i \in 1..4 |-> v.progressions[1].chords[i].name] =
                   << <<"C">>, <<"G">>, <<"A","m">>, <<"F">> >>
           /\ (args.key = <<"C">> /\ args.scaleType = "major" /\ args.capo = 2) =>
                /\ v.capoKey = <<"D">>
                /\ v.scale = << <<"D">>, <<"E">>, <<"F","#">>, <<"G">>, <<"A">>,
                                <<"B">>, <<"C","#">> >>

C1_Witness ==
    /\ pc = "done"
    /\ fn = "generateChordProgressions"
    /\ args = [key |-> <<"b","b">>, scaleType |-> "minor", capo |-> 3]
    /\ ret.ok
    /\ ret.value.key = <<"A","#">>
    /\ ret.value.capoKey = <<"C","#">>
    /\ ret.value.progressions[4].chords[1].name = <<"D","#","°">>

----------------------------------------------------------------------------
(* buildChordTriad applied to a scale, a degree and, where the caller passes
   one, an octave *)

\* the scales are drawn over the first MaxPool pitch classes of CHROMATIC
MaxPool == 10

\* the n-th smallest member of a set of numbers
NthOf(S, n) == CHOOSE x \in S : Cardinality({ y \in S : y < x }) = n - 1

\* 7 pitch classes of the pool, taken upwards or downwards from any of them
PoolScales ==
    { [i \in 1..7 |-> CHROMATIC[NthOf(S, IF up THEN ((i - 1 + k) % 7) + 1
                                          ELSE 7 - ((i - 1 + k) % 7))]] :
        S \in { T \in SUBSET (1..MaxPool) : Cardinality(T) = 7 },
        k \in 0..6, up \in BOOLEAN }

\* scales in no order at all
ScrambledScales ==
    { << <<"F","#">>, <<"C">>, <<"D","#">>, <<"E">>, <<"C","#">>, <<"F">>, <<"D">> >>,
      << <<"B">>, <<"G">>, <<"D","#">>, <<"A","#">>, <<"C">>, <<"F">>, <<"G","#">> >>,
      << <<"A">>, <<"E">>, <<"C","#">>, <<"B">>, <<"G">>, <<"D">>, <<"F","#">> >> }

\* scales of 7 distinct pitch classes, and every scale buildScale builds
TriadScales ==
    PoolScales \cup ScrambledScales
    \cup { buildScale(r, t).value : r \in Range(CHROMATIC), t \in ScaleType }

\* the octaves a caller passes
TriadOctaves == {5}

\* a call with two arguments leaves the octave to its default
InitTriad ==
    /\ pc = "call"
    /\ fn = "buildChordTriad"
    /\ args \in { [scale |-> sc, degree |-> d] : sc \in TriadScales, d \in 1..7 }
                \cup { [scale |-> sc, degree |-> d, octave |-> o] :
                         sc \in TriadScales, d \in 1..7, o \in TriadOctaves }
    /\ ret = Pending
    /\ MelodyIdle
    /\ HttpIdle

CallBuildChordTriad ==
    /\ pc = "call"
    /\ fn = "buildChordTriad"
    /\ ret' = Ok(buildChordTriad(args.scale, args.degree,
                                 IF "octave" \in DOMAIN args THEN args.octave
                                 ELSE DefaultOctave))
    /\ pc' = "done"
    /\ UNCHANGED <<fn, args, melodyVars, httpVars>>

SpecTriad == InitTriad /\ [][CallBuildChordTriad]_vars

----------------------------------------------------------------------------
(* Properties of the chord deriver *)

\* the octave the claim gives a call: the one passed, 4 where none is
OctaveAsClaimed == IF "octave" \in DOMAIN args THEN args.octave ELSE 4

\* a note name without its octave digit, and the digit
NotePitch(n) == SubSeq(n, 1, Len(n) - 1)

NoteOctaveDigit(n) == n[Len(n)]

\* C11: for every scale of 7 distinct pitch classes and every degree d in
\* 1..7, buildChordTriad(scale, d) returns degree d and exactly 3 notes, the
\* scale entries at 0-based positions d-1, (d+1) mod 7 and (d+3) mod 7, each
\* followed by the one octave of the call (4 where none is passed); the 3
\* pitch classes are pairwise distinct and each is an entry of the scale.
C11_TriadOfDegree ==
    (pc = "done" /\ fn = "buildChordTriad") =>
        LET d == args.degree
            sc == args.scale
            ch == ret.value
        IN /\ ret.ok
           /\ ch.degree = d
           /\ Len(ch.notes) = 3
           /\ NotePitch(ch.notes[1]) = sc[(d - 1) + 1]
           /\ NotePitch(ch.notes[2]) = sc[((d + 1) % 7) + 1]
           /\ NotePitch(ch.notes[3]) = sc[((d + 3) % 7) + 1]
           /\ \A k \in 1..3 :
                /\ NoteOctaveDigit(ch.notes[k]) = Digits[OctaveAsClaimed + 1]
                /\ \E i \in 1..7 : NotePitch(ch.notes[k]) = sc[i]
           /\ \A k, l \in 1..3 : k # l => NotePitch(ch.notes[k]) # NotePitch(ch.notes[l])

\* degree 7 of a scale that is no buildScale scale, octave left to its
\* default: the third and the fifth wrap past the seventh entry
C11_Witness ==
    /\ pc = "done"
    /\ fn = "buildChordTriad"
    /\ args = [scale |-> << <<"F","#">>, <<"C">>, <<"D","#">>, <<"E">>, <<"C","#">>,
                            <<"F">>, <<"D">> >>,
               degree |-> 7]
    /\ ret.ok
    /\ ret.value.notes = << <<"D","4">>, <<"C","4">>, <<"E","4">> >>

\* the suffix per degree of the two tables the claims name
SuffixOfMajorKey == << <<>>, <<"m">>, <<"m">>, <<>>, <<>>, <<"m">>, <<"°">> >>

SuffixOfMinorKey == << <<"m">>, <<"°">>, <<>>, <<"m">>, <<"m">>, <<>>, <<>> >>

\* the third entry of the scale lies exactly 4 semitones above the first
MajorThirdOnTonic(sc) == Interval(sc[1], sc[3]) = 4

\* C12: the name buildChordTriad gives is the root followed by the suffix of
\* a table chosen by a test of the scale alone: the major-key table (none, m,
\* m, none, none, m, °) when scale[2] is exactly 4 semitones above scale[0],
\* otherwise the minor-key table (m, °, none, m, m, none, none), the same
\* table for every degree; so with the test true degree 1 has no suffix and
\* degree 7 the suffix °, and the test is true of buildScale(r, major) and
\* false of buildScale(r, minor) for every root r.
C12_SuffixFromScaleTest ==
    (pc = "done" /\ fn = "buildChordTriad") =>
        LET d == args.degree
            sc == args.scale
            nm == ret.value.name
        IN /\ ret.ok
           /\ nm = sc[d] \o (IF MajorThirdOnTonic(sc) THEN SuffixOfMajorKey[d]
                             ELSE SuffixOfMinorKey[d])
           /\ (MajorThirdOnTonic(sc) /\ d = 1) => nm = sc[1]
           /\ (MajorThirdOnTonic(sc) /\ d = 7) => nm = sc[7] \o <<"°">>
           /\ \A r \in Canonical, t \in ScaleType :
                sc = buildScale(r, t).value => (MajorThirdOnTonic(sc) <=> t = "major")

\* degree 7 of a scale that is no major scale but has the major third on its
\* first entry (A, C#): the major-key table gives the suffix °
C12_Witness ==
    /\ pc = "done"
    /\ fn = "buildChordTriad"
    /\ args.scale = << <<"A">>, <<"E">>, <<"C","#">>, <<"B">>, <<"G">>, <<"D">>,
                       <<"F","#">> >>
    /\ args.degree = 7
    /\ ret.ok
    /\ ret.value.name = <<"F","#","°">>

\* degree 1 of a minor scale built by buildScale: the minor-key table
C12_WitnessMinor ==
    /\ pc = "done"
    /\ fn = "buildChordTriad"
    /\ args.scale = buildScale(<<"A">>, "minor").value
    /\ args.degree = 1
    /\ ret.ok
    /\ ret.value.name = <<"A","m">>

\* what follows the root in a chord name
SuffixOf(ch) == SubSeq(ch.name, Len(NotePitch(ch.notes[1])) + 1, Len(ch.name))

\* semitones from the root of a triad up to its third and up to its fifth
ThirdAbove(ch) == Interval(NotePitch(ch.notes[1]), NotePitch(ch.notes[2]))

FifthAbove(ch) == Interval(NotePitch(ch.notes[1]), NotePitch(ch.notes[3]))

\* C14: for every scale buildScale builds (12 roots, major or natural minor)
\* and every degree 1..7, the suffix of the name agrees with the intervals of
\* the triad: none exactly when the third is 4 and the fifth 7 semitones above
\* the root, m exactly when they are 3 and 7, ° exactly when they are 3 and 6.
C14_SuffixAgreesWithIntervals ==
    (pc = "done" /\ fn = "buildChordTriad"
        /\ \E t \in ScaleType : IsScaleOf(Ok(args.scale), args.scale[1], t)) =>
        LET ch == ret.value
        IN /\ ret.ok
           /\ SuffixOf(ch) \in { <<>>, <<"m">>, <<"°">> }
           /\ SuffixOf(ch) = <<>> <=> (ThirdAbove(ch) = 4 /\ FifthAbove(ch) = 7)
           /\ SuffixOf(ch) = <<"m">> <=> (ThirdAbove(ch) = 3 /\ FifthAbove(ch) = 7)
           /\ SuffixOf(ch) = <<"°">> <=> (ThirdAbove(ch) = 3 /\ FifthAbove(ch) = 6)

\* degree 2 of G# minor: A#, C#, E, a diminished triad named A#°
C14_Witness ==
    /\ pc = "done"
    /\ fn = "buildChordTriad"
    /\ IsScaleOf(Ok(args.scale), <<"G","#">>, "minor")
    /\ args.degree = 2
    /\ ret.ok
    /\ ret.value.name = <<"A","#","°">>
    /\ ThirdAbove(ret.value) = 3
    /\ FifthAbove(ret.value) = 6

----------------------------------------------------------------------------
(* generateMelodyForProgression applied to a key, a scale type and chord names.
   The random draws are choices of the steps; notes keeps the beat and the
   duration of every element pushed, and pushed the last element in full: no
   step reads an element back. *)

MelodyKeys == { <<"C">>, <<"F">>, <<" ","b","b">>, <<"H">> }

ChordNameInputs == { <<"A","m">>, <<"B","b">>, <<"A","#">>, <<"m","D">>, <<"B","°">> }

InitMelody ==
    /\ pc = "call"
    /\ fn = "generateMelodyForProgression"
    /\ args \in { [key |-> k, scaleType |-> t, chordNames |-> c] :
                    k \in MelodyKeys, t \in ScaleType,
                    c \in StringsUpTo(ChordNameInputs, MaxChords) }
    /\ ret = Pending
    /\ MelodyIdle
    /\ HttpIdle

\* normalize the key and build the scale, or throw; notes = [], currentBeat = 0
MelodyStart ==
    /\ pc = "call"
    /\ fn = "generateMelodyForProgression"
    /\ LET sc == buildScale(normalizeKey(args.key), args.scaleType)
       IN IF ~sc.ok
          THEN /\ ret' = sc
               /\ pc' = "done"
               /\ UNCHANGED melodyVars
          ELSE /\ scale' = sc.value
               /\ notes' = <<>>
               /\ currentBeat' = 0
               /\ barIdx' = 0
               /\ pc' = "bar"
               /\ UNCHANGED <<ret, chord, beatInBar, useChordTone, pushed>>
    /\ UNCHANGED <<fn, args, httpVars>>

\* one iteration of chordNames.forEach begins: the chord of the bar
MelodyBar ==
    /\ pc = "bar"
    /\ barIdx < Len(args.chordNames)
    /\ chord' = getChordForName(scale, args.chordNames[barIdx + 1])
    /\ beatInBar' = 0
    /\ pc' = "beat"
    /\ UNCHANGED <<fn, args, ret, scale, barIdx, currentBeat, useChordTone, notes,
                   pushed, httpVars>>

\* one pass of the for loop: the draws, the tab, the push
MelodyBeat ==
    /\ pc = "beat"
    /\ beatInBar < 4
    /\ \E u \in BOOLEAN :
       \E base \in melodyBases(u, chord, scale) :
       \E octave \in pickRandom(melodyOctaves) :
       \E tab \in { convertNoteToTab(base \o <<Digits[octave + 1]>>) } :
          IF ~tab.ok
          THEN /\ ret' = tab
               /\ pc' = "done"
               /\ UNCHANGED <<barIdx, beatInBar, currentBeat, useChordTone, notes, pushed>>
          ELSE \E note \in { melodyNote(base \o <<Digits[octave + 1]>>, currentBeat, tab.value) } :
               /\ useChordTone' = u
               /\ notes' = Append(notes, [beat |-> note.beat, duration |-> note.duration])
               /\ pushed' = note
               /\ currentBeat' = currentBeat + note.duration
               /\ beatInBar' = beatInBar + 1
               /\ IF beatInBar + 1 < 4
                  THEN pc' = "beat" /\ barIdx' = barIdx
                  ELSE pc' = "bar" /\ barIdx' = barIdx + 1
               /\ ret' = ret
    /\ UNCHANGED <<fn, args, scale, chord, httpVars>>

\* forEach is over: return notes
MelodyReturn ==
    /\ pc = "bar"
    /\ fn = "generateMelodyForProgression"
    /\ barIdx = Len(args.chordNames)
    /\ ret' = Ok(notes)
    /\ pc' = "done"
    /\ UNCHANGED <<fn, args, melodyVars, httpVars>>

NextMelody == MelodyStart \/ MelodyBar \/ MelodyBeat \/ MelodyReturn

SpecMelody == InitMelody /\ [][NextMelody]_vars

----------------------------------------------------------------------------
(* Properties of the melody generator *)

InMelody == fn = "generateMelodyForProgression"

KeyIsValid == normalizeKey(args.key) \in Canonical

\* the scale of the key as given, no capo
ScaleOfKey == buildScale(normalizeKey(args.key), args.scaleType).value

\* C2: for a valid key and chordNames of length N (0 included), whatever the
\* random draws, the result has exactly 4N notes, their beats are 0, 1, ...,
\* 4N-1 in order (not reset per chord) and every duration is 1.
C2_FourNotesPerChord ==
    (InMelody /\ KeyIsValid) =>
        /\ \A i \in DOMAIN notes : notes[i].beat = i - 1 /\ notes[i].duration = 1
        /\ pushed # NoNote =>
             /\ pushed.beat = notes[Len(notes)].beat
             /\ pushed.duration = notes[Len(notes)].duration
        /\ pc = "done" =>
             /\ ret.ok
             /\ ret.value = notes
             /\ Len(ret.value) = 4 * Len(args.chordNames)

C2_Witness ==
    /\ InMelody
    /\ pc = "done"
    /\ Len(args.chordNames) = 2
    /\ ret.ok
    /\ Len(ret.value) = 8
    /\ ret.value[5].beat = 4
    /\ pushed.beat = 7

\* the chord name of the bar being played
BarName == args.chordNames[barIdx + 1]

\* a name with one trailing m or ° taken off
SuffixStripped(nm) ==
    IF nm # <<>> /\ nm[Len(nm)] \in {"m", "°"} THEN SubSeq(nm, 1, Len(nm) - 1) ELSE nm

\* a name with every m and ° taken out, wherever it stands
QualityCharsRemoved(nm) == SelectSeq(nm, LAMBDA c : c # "m" /\ c # "°")

HasFlatRoot(nm) == Len(nm) >= 2 /\ SubSeq(nm, 1, 2) \in FlatSpellings

\* that name with the flat root respelt as its sharp
Respelt(nm) == SharpOf(SubSeq(nm, 1, 2)) \o SubSeq(nm, 3, Len(nm))

\* C7: a flat spelling and its sharp equivalent give the same result in
\* every input: as the key (the same working scale, hence the same set of
\* results) and as the root of a chord name (the same chord resolved).
C7_FlatSpellingEqualsSharp ==
    InMelody =>
        /\ (pc \in {"bar", "beat"} /\ args.key \in FlatSpellings) =>
              scale = buildScale(SharpOf(args.key), args.scaleType).value
        /\ (pc = "beat" /\ HasFlatRoot(BarName)) =>
              chord = getChordForName(scale, Respelt(BarName))

\* the part of C7 that holds: the flat spelling of the key
C7_FlatKeyEqualsSharp ==
    (InMelody /\ pc \in {"bar", "beat"} /\ args.key \in FlatSpellings) =>
        scale = buildScale(SharpOf(args.key), args.scaleType).value

\* the failing case of C7: in F major Bb resolves to the tonic, A# to A#
C7_FlatChordReached ==
    /\ InMelody
    /\ pc = "beat"
    /\ args.key = <<"F">>
    /\ args.scaleType = "major"
    /\ BarName = <<"B","b">>
    /\ chord.name = <<"F">>
    /\ getChordForName(scale, <<"A","#">>).name = <<"A","#">>

\* the three pitch classes of a chord
ChordTones(ch) == { sliceLast(ch.notes[k]) : k \in DOMAIN ch.notes }

\* C9: every note emitted is a triad tone of the chord resolved for its bar
\* (the chord of chordNames[k] for beats 4k..4k+3) or one of the 7 tones of
\* the scale of the key as given, followed by an octave 4 or 5.
C9_NotesFromChordOrScale ==
    (InMelody /\ pushed # NoNote) =>
        LET tone == sliceLast(pushed.note)
            bar == pushed.beat \div 4
            barChord == getChordForName(ScaleOfKey, args.chordNames[bar + 1])
        IN /\ pushed.note[Len(pushed.note)] \in {"4", "5"}
           /\ scale = ScaleOfKey
           /\ Cardinality(ChordTones(barChord)) = 3
           /\ Cardinality(Range(ScaleOfKey)) = 7
           /\ tone \in ChordTones(barChord) \cup Range(ScaleOfKey)
           /\ useChordTone => tone \in ChordTones(barChord)
           /\ ~useChordTone => tone \in Range(ScaleOfKey)
           /\ ~(pc = "beat" /\ beatInBar = 0) => chord = barChord

\* a scale tone outside the chord, in octave 5, in the second bar
C9_Witness ==
    /\ InMelody
    /\ pushed # NoNote
    /\ ~useChordTone
    /\ args.key = <<"F">>
    /\ args.scaleType = "major"
    /\ args.chordNames = << <<"B","b">>, <<"A","#">> >>
    /\ pushed.beat = 5
    /\ pushed.note = <<"G","5">>
    /\ chord.name = <<"A","#">>

\* the other branch and the other octave: a chord tone in octave 4
C9_WitnessChordTone ==
    /\ InMelody
    /\ pushed # NoNote
    /\ useChordTone
    /\ args.key = <<"F">>
    /\ args.chordNames = << <<"B","b">>, <<"A","#">> >>
    /\ pushed.beat = 5
    /\ pushed.note = <<"D","4">>

\* C15: no note of generateMelodyForProgression carries the out-of-range
\* sentinel and none is refused as an invalid note format: a melody note is a
\* canonical pitch class in octave 4 or 5, and its tab is on string 1 with a
\* fret in 0..19 (E4 and above) or on string 2 with a fret in 1..4 (C4 to
\* D#4), the fret being the semitones of the note above the open string.
C15_TabOnTopTwoStrings ==
    InMelody =>
        /\ ret.error # "Invalid note format"
        /\ pushed # NoNote =>
             LET t == AbsoluteSemitone(pushed.note)
                 tab == pushed.tab
             IN /\ PitchOf(pushed.note) \in Canonical
                /\ t \in 48..71
                /\ tab.stringNumber # 0
                /\ tab.fret # -1
                /\ tab.label # <<"(out of range)">>
                /\ tab.label = <<"String ", tab.stringNumber, ", fret ", tab.fret>>
                /\ tab.fret = t - OpenSemitone[tab.stringNumber]
                /\ IF t >= OpenSemitone[1]
                   THEN tab.stringNumber = 1 /\ tab.fret \in 0..19
                   ELSE tab.stringNumber = 2 /\ tab.fret \in 1..4

\* D#4, the highest note below the open first string: string 2, fret 4
C15_Witness ==
    /\ InMelody
    /\ pushed.note = <<"D","#","4">>
    /\ pushed.tab.stringNumber = 2
    /\ pushed.tab.fret = 4

\* the highest melody note of C major, B5: string 1, fret 19
C15_WitnessTop ==
    /\ InMelody
    /\ pushed.note = <<"B","5">>
    /\ pushed.tab.stringNumber = 1
    /\ pushed.tab.fret = 19

----------------------------------------------------------------------------
(* The chord names generateChordProgressions returns, handed to the reverse
   lookup of generateMelodyForProgression: the scale is built of the key the
   melody is asked in, and one name of the progression is resolved on it *)

RoundTripKeys == Range(CHROMATIC) \cup { <<"B","b">>, <<"H">> }

InitRoundTrip ==
    /\ pc = "call"
    /\ fn = "generateChordProgressions"
    /\ args \in { [key |-> k, scaleType |-> t, capo |-> c] :
                    k \in RoundTripKeys, t \in ScaleType, c \in CapoInputs }
    /\ ret = Pending
    /\ MelodyIdle
    /\ HttpIdle

\* the names of the chords of one progression of a result
ChordNamesOf(progression) ==
    [i \in DOMAIN progression.chords |-> progression.chords[i].name]

\* generateMelodyForProgression up to the chord of one bar: key is the capo
\* key or the original key of the result, chordNames one of its progressions
LookupChord ==
    /\ pc = "done"
    /\ fn = "generateChordProgressions"
    /\ ret.ok
    /\ \E k \in { ret.value.capoKey, ret.value.key } :
       \E p \in DOMAIN ret.value.progressions :
       \E i \in DOMAIN ret.value.progressions[p].chords :
       \E sc \in { buildScale(normalizeKey(k), ret.value.scaleType) } :
          /\ sc.ok
          /\ args' = [key |-> k, scaleType |-> ret.value.scaleType,
                      chordNames |-> ChordNamesOf(ret.value.progressions[p])]
          /\ scale' = sc.value
          /\ barIdx' = i - 1
          /\ chord' = getChordForName(sc.value, ret.value.progressions[p].chords[i].name)
    /\ fn' = "getChordForName"
    /\ pc' = "looked"
    /\ UNCHANGED <<ret, beatInBar, currentBeat, useChordTone, notes, pushed, httpVars>>

NextRoundTrip == CallGenerateChordProgressions \/ LookupChord

SpecRoundTrip == InitRoundTrip /\ [][NextRoundTrip]_vars

\* C13: for every canonical key, scale type and capo in 0..11, each chord name
\* of generateChordProgressions(key, scaleType, capo), looked up on the scale
\* of (capoKey, scaleType), has its root in that scale (no tonic fallback) and
\* resolves to the chord it names: same degree, name and notes; looked up on
\* the scale of the original key with capo not 0, a chord whose root is not in
\* that scale resolves to the tonic chord of the original key.
C13_NamesResolveOnCapoScale ==
    (pc = "looked" /\ fn = "getChordForName") =>
        LET v == ret.value
            root == SuffixStripped(BarName)
        IN /\ IsScaleOf(Ok(scale), args.key, args.scaleType)
           /\ args.key = v.capoKey =>
                /\ \E j \in 1..7 : scale[j] = root
                /\ \A p \in 1..5 :
                     ChordNamesOf(v.progressions[p]) = args.chordNames =>
                        chord = v.progressions[p].chords[barIdx + 1]
           /\ (args.key = v.key /\ v.capo # 0 /\ \A j \in 1..7 : scale[j] # root) =>
                /\ chord.degree = 1
                /\ NotePitch(chord.notes[1]) = v.key
                /\ chord.name = v.key \o (IF args.scaleType = "major" THEN <<>> ELSE <<"m">>)
                /\ [n \in 1..3 |-> NotePitch(chord.notes[n])] =
                      <<scale[1], scale[3], scale[5]>>

\* A minor, capo 2: the second chord of ii-V-I, C#° F#m Bm, looked up on the
\* scale of the capo key B
C13_Witness ==
    /\ pc = "looked"
    /\ ret.value.key = <<"A">>
    /\ ret.value.capo = 2
    /\ args = [key |-> <<"B">>, scaleType |-> "minor",
               chordNames |-> << <<"C","#","°">>, <<"F","#","m">>, <<"B","m">> >>]
    /\ barIdx = 0
    /\ chord = [degree |-> 2, name |-> <<"C","#","°">>,
                notes |-> << <<"C","#","4">>, <<"E","4">>, <<"G","4">> >>]

\* the same name looked up on the scale of the original key A: C# is no
\* entry of A minor, the chord is the tonic Am
C13_WitnessFallback ==
    /\ pc = "looked"
    /\ ret.value.key = <<"A">>
    /\ ret.value.capo = 2
    /\ args.key = <<"A">>
    /\ args.scaleType = "minor"
    /\ BarName = <<"C","#","°">>
    /\ chord.name = <<"A","m">>
    /\ chord.degree = 1

----------------------------------------------------------------------------
(* The worker entry point: fetch.  A request is its method, its path and the
   query parameters or the JSON body it carries; Null is a parameter or a
   field that is absent.  The melody route runs generateMelodyForProgression
   through the steps above and answers when it has returned or thrown. *)

Null == <<"null">>

jsonResponse(data, status) == [status |-> status, body |-> data]

\* err.message: the fixed text and the value the template put in
errorMessage(r) == <<r.error, r.value>>

\* the catch block of fetch
errorResponse(r) == jsonResponse([error |-> errorMessage(r)], 500)

\* x || d for a string or an absent x
orDefault(x, d) == IF x = Null \/ x = <<>> THEN d ELSE x

\* scaleParam === "minor" ? "minor" : "major"
scaleTypeOf(scaleParam) ==
    IF scaleParam = <<"m","i","n","o","r">> THEN "minor" ELSE "major"

\* Number.isFinite(capoParam) ? Math.max(0, Math.min(11, capoParam)) : 0
clampCapo(capoParam) ==
    IF capoParam.isNaN THEN 0
    ELSE LET m == IF capoParam.value < 11 THEN capoParam.value ELSE 11
         IN IF m > 0 THEN m ELSE 0

\* the progression used when the body holds no array
DefaultProgression == << <<"C">>, <<"G">>, <<"A","m">>, <<"F">> >>

HttpKeys ==
    { Null, <<>>, <<"C">>, <<"b","b">>, <<" ","f","#"," ">>, <<"F","b">>, <<"H">>,
      <<"C","b">>, <<"E","#">>, <<"D","B">>, <<"_","_","p","r","o","t","o","_","_">> }

HttpScales ==
    { Null, <<"m","i","n","o","r">>, <<"M","i","n","o","r">>, <<"d","o","r","i","a","n">> }

HttpCapos == { Null, <<"0">>, <<"2">>, <<"1","2">>, <<"-","1">>, <<"7","x">>, <<"x">> }

HttpProgressions == { Null, <<>>, << <<"B","b">> >> }

\* methods and paths that match no route
OtherRoutes ==
    { [method |-> "POST", path |-> "/api/progressions"],
      [method |-> "GET", path |-> "/api/melody"],
      [method |-> "POST", path |-> "/"],
      [method |-> "GET", path |-> "/missing"] }

Init ==
    /\ pc = "idle"
    /\ fn = "fetch"
    /\ args = <<>>
    /\ ret = Pending
    /\ MelodyIdle
    /\ HttpIdle

\* GET /api/progressions
FetchProgressions ==
    /\ pc = "idle"
    /\ \E k \in HttpKeys, sp \in HttpScales, cp \in HttpCapos :
          LET key == orDefault(k, <<"C">>)
              scaleParam == toLowerCase(orDefault(sp, <<"m","a","j","o","r">>))
              scaleType == scaleTypeOf(scaleParam)
              capo == clampCapo(parseInt(orDefault(cp, <<"0">>)))
              data == generateChordProgressions(key, scaleType, capo)
          IN /\ request' = [method |-> "GET", path |-> "/api/progressions",
                            key |-> k, scale |-> sp, capo |-> cp]
             /\ fn' = "generateChordProgressions"
             /\ args' = [key |-> key, scaleType |-> scaleType, capo |-> capo]
             /\ ret' = data
             /\ response' = IF data.ok THEN jsonResponse(data.value, 200)
                            ELSE errorResponse(data)
    /\ pc' = "responded"
    /\ UNCHANGED melodyVars

\* POST /api/melody, up to the call of generateMelodyForProgression; a body
\* that is no JSON, or the JSON null, makes the handler throw before the call
FetchMelody ==
    /\ pc = "idle"
    /\ \E kind \in {"malformed", "null", "object"} :
       \E k \in HttpKeys, sp \in HttpScales, pr \in HttpProgressions :
          /\ kind # "object" => k = Null /\ sp = Null /\ pr = Null
          /\ request' = [method |-> "POST", path |-> "/api/melody", body |-> kind,
                         key |-> k, scale |-> sp, progression |-> pr]
          /\ IF kind = "malformed"
             THEN /\ ret' = Throw("SyntaxError", <<>>)
                  /\ response' = errorResponse(Throw("SyntaxError", <<>>))
                  /\ pc' = "responded"
                  /\ UNCHANGED <<fn, args>>
             ELSE IF kind = "null"
             THEN /\ ret' = Throw("TypeError", <<>>)
                  /\ response' = errorResponse(Throw("TypeError", <<>>))
                  /\ pc' = "responded"
                  /\ UNCHANGED <<fn, args>>
             ELSE /\ fn' = "generateMelodyForProgression"
                  /\ args' = [key |-> IF k = Null THEN <<"C">> ELSE k,
                              scaleType |-> scaleTypeOf(IF sp = Null THEN <<"m","a","j","o","r">>
                                                        ELSE toLowerCase(sp)),
                              chordNames |-> IF pr = Null THEN DefaultProgression ELSE pr]
                  /\ pc' = "call"
                  /\ UNCHANGED <<ret, response>>
    /\ UNCHANGED melodyVars

\* POST /api/melody, from the return of generateMelodyForProgression
FetchMelodyRespond ==
    /\ pc = "done"
    /\ request # NoRequest
    /\ response' = IF ret.ok
                   THEN jsonResponse([key |-> normalizeKey(args.key),
                                      scaleType |-> args.scaleType,
                                      progression |-> args.chordNames,
                                      melody |-> ret.value], 200)
                   ELSE errorResponse(ret)
    /\ pc' = "responded"
    /\ UNCHANGED <<fn, args, ret, melodyVars, request>>

\* GET /
FetchHome ==
    /\ pc = "idle"
    /\ request' = [method |-> "GET", path |-> "/"]
    /\ response' = [status |-> 200, body |-> <<"html">>]
    /\ pc' = "responded"
    /\ UNCHANGED <<fn, args, ret, melodyVars>>

\* any other method and path
FetchNotFound ==
    /\ pc = "idle"
    /\ \E r \in OtherRoutes :
          request' = r
    /\ response' = [status |-> 404, body |-> <<"Not found">>]
    /\ pc' = "responded"
    /\ UNCHANGED <<fn, args, ret, melodyVars>>

Next ==
    \/ FetchProgressions
    \/ FetchMelody
    \/ MelodyStart
    \/ MelodyBar
    \/ MelodyBeat
    \/ MelodyReturn
    \/ FetchMelodyRespond
    \/ FetchHome
    \/ FetchNotFound

Spec == Init /\ [][Next]_vars

----------------------------------------------------------------------------
(* Properties of the error path *)

InCore == fn \in {"generateChordProgressions", "generateMelodyForProgression"}

\* C6: a key whose normalized form is none of the 12 canonical names makes
\* generateChordProgressions and generateMelodyForProgression throw
\* Unsupported note before any part of a result exists, and fetch answers
\* with status 500 and the body {error: message}, never with a 200.
C6_UnsupportedKeyIs500 ==
    (InCore /\ normalizeKey(args.key) \notin Canonical) =>
        /\ pc \in {"call", "done", "responded"}
        /\ MelodyIdle
        /\ pc \in {"done", "responded"} =>
              /\ ~ret.ok
              /\ ret.error = "Unsupported note"
              /\ ret.value = normalizeKey(args.key)
        /\ pc = "responded" =>
              /\ response.status = 500
              /\ response.body = [error |-> <<"Unsupported note", normalizeKey(args.key)>>]
        /\ response.status # 200

C6_Witness ==
    /\ pc = "responded"
    /\ fn = "generateMelodyForProgression"
    /\ request.key = <<"F","b">>
    /\ request.progression = << <<"B","b">> >>
    /\ notes = <<>>
    /\ response = [status |-> 500,
                   body |-> [error |-> <<"Unsupported note", <<"F","b">> >>]]

\* the same on the progressions route
C6_WitnessProgressions ==
    /\ pc = "responded"
    /\ fn = "generateChordProgressions"
    /\ request.key = <<"D","B">>
    /\ response = [status |-> 500,
                   body |-> [error |-> <<"Unsupported note", <<"D","B">> >>]]

====
